---- MODULE Spec2Model ----
(***************************************************************************)
(* Model of the entry points of esprima as found in src/src/esprima.ts and *)
(* in the markup-separating revision of the same file                      *)
(* (src/unnamed/part_000): parse, tokenize and the two revisions of        *)
(* tokenizeC.  Source text is a sequence of one-character strings.         *)
(***************************************************************************)
EXTENDS Integers, Sequences, FiniteSets, TLC

VARIABLES fn, tolerant, delegate, options, pc, scanned, last,
          tokens, html_tokens, errors, log, result,
          collectComment, commentHandler, parserDelegate, completed, visits

vars == <<fn, tolerant, delegate, options, pc, scanned, last,
          tokens, html_tokens, errors, log, result,
          collectComment, commentHandler, parserDelegate, completed, visits>>

(***************************************************************************)
(* Bounds                                                                  *)
(***************************************************************************)
MaxTokens == 2
MaxNodes == 3

(***************************************************************************)
(* String primitives of the host language                                  *)
(***************************************************************************)
UpperCase == <<"A","B","C","D","E","F","G","H","I","J","K","L","M",
               "N","O","P","Q","R","S","T","U","V","W","X","Y","Z">>
LowerCase == <<"a","b","c","d","e","f","g","h","i","j","k","l","m",
               "n","o","p","q","r","s","t","u","v","w","x","y","z">>

\* Canonical case of one character, as the "i" flag of RegExp compares.
Canonicalize(c) ==
    IF \E k \in 1..26 : UpperCase[k] = c
    THEN LowerCase[CHOOSE k \in 1..26 : UpperCase[k] = c]
    ELSE c

\* Relative index of String.prototype.slice: negative counts from the end,
\* the result is clamped to 0..len.
SliceIndex(i, len) ==
    IF i < 0 THEN (IF len + i < 0 THEN 0 ELSE len + i)
    ELSE IF i > len THEN len ELSE i

\* String.prototype.slice(start, end)
slice(s, start, end) ==
    LET from == SliceIndex(start, Len(s))
        to   == SliceIndex(end, Len(s))
    IN  IF from >= to THEN <<>> ELSE SubSeq(s, from + 1, to)

\* String.prototype.substring(start, end): indices clamped to 0..len and
\* swapped when start > end.
SubstringIndex(i, len) == IF i < 0 THEN 0 ELSE IF i > len THEN len ELSE i

substring(s, start, end) ==
    LET a == SubstringIndex(start, Len(s))
        b == SubstringIndex(end, Len(s))
        from == IF a < b THEN a ELSE b
        to   == IF a < b THEN b ELSE a
    IN  SubSeq(s, from + 1, to)

\* String.prototype.split(sep) for a one-character separator: the pieces
\* between consecutive occurrences of sep, empty pieces included.
split(s, sep) ==
    LET seps     == {i \in 1..Len(s) : s[i] = sep}
        n        == Cardinality(seps)
        bound(k) == IF k = 0 THEN 0
                    ELSE IF k = n + 1 THEN Len(s) + 1
                    ELSE CHOOSE i \in seps :
                             Cardinality({j \in seps : j < i}) = k - 1
    IN  [k \in 1..(n + 1) |-> SubSeq(s, bound(k - 1) + 1, bound(k) - 1)]

\* Array.prototype.join(sep) for a one-character separator.
RECURSIVE join(_, _)
join(arr, sep) ==
    IF Len(arr) = 0 THEN <<>>
    ELSE IF Len(arr) = 1 THEN arr[1]
    ELSE LET half == Len(arr) \div 2
         IN  join(SubSeq(arr, 1, half), sep) \o <<sep>>
                 \o join(SubSeq(arr, half + 1, Len(arr)), sep)

\* Cooked value of template-literal text: a backslash before a character
\* that starts no escape sequence is dropped and the character kept.
RECURSIVE Cooked(_)
Cooked(raw) ==
    IF Len(raw) = 0 THEN <<>>
    ELSE IF raw[1] = "\\" /\ Len(raw) >= 2
         THEN <<raw[2]>> \o Cooked(SubSeq(raw, 3, Len(raw)))
         ELSE <<raw[1]>> \o Cooked(Tail(raw))

(***************************************************************************)
(* The whitelist of element names                                          *)
(***************************************************************************)
html_tags == <<
    <<"a">>,
    <<"a","b","b","r">>,
    <<"a","d","d","r","e","s","s">>,
    <<"a","r","e","a">>,
    <<"a","r","t","i","c","l","e">>,
    <<"a","s","i","d","e">>,
    <<"a","u","d","i","o">>,
    <<"b">>,
    <<"b","a","s","e">>,
    <<"b","b">>,
    <<"b","d","o">>,
    <<"b","l","o","c","k","q","u","o","t","e">>,
    <<"b","o","d","y">>,
    <<"b","r">>,
    <<"b","u","t","t","o","n">>,
    <<"c","a","n","v","a","s">>,
    <<"c","a","p","t","i","o","n">>,
    <<"c","i","t","e">>,
    <<"c","o","d","e">>,
    <<"c","o","l">>,
    <<"c","o","l","g","r","o","u","p">>,
    <<"c","o","m","m","a","n","d">>,
    <<"d","a","t","a","g","r","i","d">>,
    <<"d","a","t","a","l","i","s","t">>,
    <<"d","d">>,
    <<"d","e","l">>,
    <<"d","e","t","a","i","l","s">>,
    <<"d","f","n">>,
    <<"d","i","a","l","o","g">>,
    <<"d","i","v">>,
    <<"d","l">>,
    <<"d","t">>,
    <<"e","m">>,
    <<"e","m","b","e","d">>,
    <<"e","v","e","n","t","s","o","u","r","c","e">>,
    <<"f","i","e","l","d","s","e","t">>,
    <<"f","i","g","c","a","p","t","i","o","n">>,
    <<"f","i","g","u","r","e">>,
    <<"f","o","o","t","e","r">>,
    <<"f","o","r","m">>,
    <<"h","1">>,
    <<"h","2">>,
    <<"h","3">>,
    <<"h","4">>,
    <<"h","5">>,
    <<"h","6">>,
    <<"h","e","a","d">>,
    <<"h","e","a","d","e","r">>,
    <<"h","g","r","o","u","p">>,
    <<"h","r">>,
    <<"h","t","m","l">>,
    <<"i">>,
    <<"i","f","r","a","m","e">>,
    <<"i","m","g">>,
    <<"i","n","p","u","t">>,
    <<"i","n","s">>,
    <<"k","b","d">>,
    <<"l","a","b","e","l">>,
    <<"l","e","g","e","n","d">>,
    <<"l","i">>,
    <<"l","i","n","k">>,
    <<"m","a","p">>,
    <<"m","a","r","k">>,
    <<"m","e","n","u">>,
    <<"m","e","t","e","r">>,
    <<"n","a","v">>,
    <<"n","o","s","c","r","i","p","t">>,
    <<"o","b","j","e","c","t">>,
    <<"o","l">>,
    <<"o","p","t","g","r","o","u","p">>,
    <<"o","p","t","i","o","n">>,
    <<"o","u","t","p","u","t">>,
    <<"p">>,
    <<"p","a","r","a","m">>,
    <<"p","r","e">>,
    <<"p","r","o","g","r","e","s","s">>,
    <<"q">>,
    <<"r","p">>,
    <<"r","t">>,
    <<"r","u","b","y">>,
    <<"s">>,
    <<"s","a","m","p">>,
    <<"s","e","c","t","i","o","n">>,
    <<"s","e","l","e","c","t">>,
    <<"s","m","a","l","l">>,
    <<"s","o","u","r","c","e">>,
    <<"s","p","a","n">>,
    <<"s","t","r","o","n","g">>,
    <<"s","u","b">>,
    <<"s","u","p">>,
    <<"t","a","b","l","e">>,
    <<"t","b","o","d","y">>,
    <<"t","d">>,
    <<"t","e","x","t","a","r","e","a">>,
    <<"t","f","o","o","t">>,
    <<"t","h">>,
    <<"t","h","e","a","d">>,
    <<"t","i","m","e">>,
    <<"t","i","t","l","e">>,
    <<"t","r">>,
    <<"t","r","a","c","k">>,
    <<"u">>,
    <<"u","l">>,
    <<"v","a","r">>,
    <<"v","i","d","e","o">>,
    <<"w","b","r">>
>>

(***************************************************************************)
(* RegExp: the subset of the pattern language the source uses              *)
(*   Disjunction :: Alternative | Alternative "|" Disjunction              *)
(*   Term :: Atom | Atom "?" | Atom "*"      Atom :: char | "[" chars "]"  *)
(***************************************************************************)
RECURSIVE Terms(_)
Terms(p) ==
    IF Len(p) = 0 THEN <<>>
    ELSE LET close == IF p[1] = "["
                      THEN CHOOSE j \in 2..Len(p) :
                               p[j] = "]" /\ \A k \in 2..(j - 1) : p[k] # "]"
                      ELSE 1
             atom  == IF p[1] = "[" THEN {p[k] : k \in 2..(close - 1)}
                                    ELSE {p[1]}
             quant == IF close < Len(p) /\ p[close + 1] \in {"?", "*"}
                      THEN p[close + 1] ELSE "1"
             used  == IF quant = "1" THEN close ELSE close + 1
         IN  <<[atom |-> atom, quant |-> quant]>>
                 \o Terms(SubSeq(p, used + 1, Len(p)))

\* With the "i" flag the characters of the pattern are compared in their
\* canonical case.
CanonicalTerms(terms) ==
    [k \in 1..Len(terms) |->
        [atom |-> {Canonicalize(x) : x \in terms[k].atom},
         quant |-> terms[k].quant]]

\* new RegExp(source, "i"): the alternatives of the top-level disjunction.
RegExp(source) ==
    LET alternatives == split(source, "|")
    IN  [a \in 1..Len(alternatives) |-> CanonicalTerms(Terms(alternatives[a]))]

AtomMatches(term, c) == c \in term.atom

\* Does the sequence of terms match s starting at (1-based) position i?
RECURSIVE MatchAt(_, _, _)
MatchAt(terms, s, i) ==
    IF Len(terms) = 0 THEN TRUE
    ELSE LET t    == Head(terms)
             here == i <= Len(s) /\ AtomMatches(t, s[i])
         IN  CASE t.quant = "1" -> here /\ MatchAt(Tail(terms), s, i + 1)
               [] t.quant = "?" -> \/ here /\ MatchAt(Tail(terms), s, i + 1)
                                   \/ MatchAt(Tail(terms), s, i)
               [] t.quant = "*" -> \/ MatchAt(Tail(terms), s, i)
                                   \/ here /\ MatchAt(terms, s, i + 1)

\* RegExp.prototype.test: some alternative matches at some position of
\* the subject, itself taken in canonical case.
test(re, str) ==
    LET s == [i \in 1..Len(str) |-> Canonicalize(str[i])]
    IN  \E a \in 1..Len(re) : \E i \in 1..(Len(s) + 1) : MatchAt(re[a], s, i)

\* The two static chunks of the template literal that builds the pattern,
\* as written in the source (raw), around ${valid_html_tags}.
PatternHead == <<"<","\\","/","?">>
PatternTail == <<"[","\\","s","\\","S","]","*",">">>

valid_html_tags == join(html_tags, "|")

regex == RegExp(Cooked(PatternHead) \o valid_html_tags \o Cooked(PatternTail))

isHTML(str) == test(regex, str)

(***************************************************************************)
(* Tokens and the scanners                                                 *)
(***************************************************************************)
\* The character U+0060, which cannot be written inside a TLA+ string.
Backtick == "U+0060"

Tok(type, value) == [type |-> type, value |-> value]

NoToken == Tok("none", <<>>)

\* Token values are raw source slices, delimiters included.
SourceTokens ==
    { Tok("Identifier", <<"x">>),
      Tok("Punctuator", <<"=">>),
      \* 'foo bar'
      Tok("String", <<"'","f","o","o"," ","b","a","r","'">>),
      \* '<div>hi</div>'
      Tok("String", <<"'","<","d","i","v",">","h","i","<","/","d","i","v",">","'">>),
      \* "'.xy' 'zw"
      Tok("String", <<"\"","'",".","x","y","'"," ","'","z","w","\"">>),
      \* '.xy  #zw', with two spaces
      Tok("String", <<"'",".","x","y"," "," ","#","z","w","'">>),
      \* string tokens shorter than their two delimiters
      Tok("String", <<"'">>),
      Tok("String", <<>>),
      \* template .xy 'zw between backticks
      Tok("Template", <<Backtick,".","x","y"," ","'","z","w",Backtick>>),
      \* template <DIV>x</DIV> between backticks
      Tok("Template", <<Backtick,"<","D","I","V",">","x","<","/","D","I","V",">",Backtick>>),
      \* template not html between backticks
      Tok("Template", <<Backtick,"n","o","t"," ","h","t","m","l",Backtick>>),
      \* template head xy${ after a backtick, and template middle }xy${
      Tok("Template", <<Backtick,"x","y","$","{">>),
      Tok("Template", <<"}","x","y","$","{">>),
      \* a lone backtick, at once the first and the last character
      Tok("Template", <<Backtick>>) }

\* Tokens the scanner still delivers after an error it only tolerated.
RecoveredTokens ==
    { Tok("Identifier", <<"x">>),
      Tok("String", <<"'",".","x","y"," "," ","#","z","w","'">>) }

Outcome(kind, token) == [kind |-> kind, token |-> token]

\* Tokenizer.getNextToken after n earlier calls: a token, a token after a
\* tolerated error (tolerant mode only; in strict mode tolerating throws),
\* null at the end of the input, or a thrown error.
getNextToken(tol, n) ==
    {Outcome("eof", NoToken), Outcome("throw", NoToken)}
    \cup (IF n < MaxTokens
          THEN {Outcome("token", t) : t \in SourceTokens}
               \cup (IF tol THEN {Outcome("tolerated", t) : t \in RecoveredTokens}
                            ELSE {})
          ELSE {})

\* CustomTokenizer.getNextToken: as above, or an object with no keys.
getNextTokenCustom(tol, n) ==
    getNextToken(tol, n)
    \cup (IF n < MaxTokens THEN {Outcome("empty", NoToken)} ELSE {})

ScanError(n) == [index |-> n, from |-> "scanner"]
DelegateError(n) == [index |-> n, from |-> "delegate"]

\* ErrorHandler.tolerate(e): record in tolerant mode, throw otherwise.
tolerate(tol, errs, e) ==
    [raised |-> ~tol, errors |-> IF tol THEN Append(errs, e) ELSE errs]

\* ErrorHandler.tolerateError inside the scanner (tolerant mode).
ScannerErrors(o, errs, n) ==
    IF o.kind = "tolerated" THEN Append(errs, ScanError(n)) ELSE errs

(***************************************************************************)
(* Caller-supplied transforms                                              *)
(***************************************************************************)
\* No transform, one that returns a changed token, one that throws.
Delegates == {"none", "rename", "throws"}

\* What a supplied transform returns for a token.
applyDelegate(d, token) ==
    IF d = "rename" THEN Tok(token.type, <<"_">> \o token.value) ELSE token

(***************************************************************************)
(* Literal handling shared by the two revisions of tokenizeC               *)
(***************************************************************************)
unwrapString(value) == slice(value, 1, Len(value) - 1)

unwrapTemplate(value) ==
    LET len == Len(value)
        isOpenedTemplate == len >= 1 /\ value[1] = Backtick
        isClosedTemplate == len >= 1 /\ value[len] = Backtick
    IN  slice(value, IF isOpenedTemplate THEN 1 ELSE 0,
                     IF isClosedTemplate THEN len - 1 ELSE len)

stripQuotes(element) ==
    IF substring(element, 0, 1) = <<"'">> \/ substring(element, 0, 1) = <<"\"">>
    THEN slice(element, 1, Len(element) - 1)
    ELSE element

stripSelector(element) ==
    IF substring(element, 0, 1) = <<".">> \/ substring(element, 0, 1) = <<"#">>
    THEN slice(element, 1, Len(element))
    ELSE element

\* What the call did with one literal: its raw value, its unwrapped text,
\* whether the text went to the markup output, the pieces of the split and
\* the entries pushed for them.
LogEntry(type, value, text, html, pieces, outs) ==
    [type |-> type, value |-> value, text |-> text, html |-> html,
     pieces |-> pieces, outs |-> outs]

(***************************************************************************)
(* tokenizeC, markup-separating revision: the branches of the loop body    *)
(***************************************************************************)
\* StringBranch without the continue that follows the push of a markup
\* fragment: the fragment is split into words as well.
StringBranch_falls_through(value, toks, html) ==
    LET unwrappedString == unwrapString(value)
        split_arr == split(unwrappedString, " ")
        outs == [k \in 1..Len(split_arr) |->
                     stripSelector(stripQuotes(split_arr[k]))]
    IN  [tokens |-> toks \o outs,
         html_tokens |-> IF isHTML(unwrappedString)
                         THEN Append(html, unwrappedString) ELSE html,
         entry |-> LogEntry("String", value, unwrappedString,
                            isHTML(unwrappedString), split_arr, outs)]

StringBranch(value, toks, html) ==
    LET unwrappedString == unwrapString(value)
    IN  IF isHTML(unwrappedString)
        THEN [tokens |-> toks, html_tokens |-> Append(html, unwrappedString),
              entry |-> LogEntry("String", value, unwrappedString, TRUE, <<>>, <<>>)]
        ELSE LET split_arr == split(unwrappedString, " ")
                 outs == [k \in 1..Len(split_arr) |->
                              stripSelector(stripQuotes(split_arr[k]))]
             IN  [tokens |-> toks \o outs, html_tokens |-> html,
                  entry |-> LogEntry("String", value, unwrappedString, FALSE, split_arr, outs)]

TemplateBranch(value, toks, html) ==
    LET unwrappedTemplate == unwrapTemplate(value)
    IN  IF isHTML(unwrappedTemplate)
        THEN [tokens |-> toks, html_tokens |-> Append(html, unwrappedTemplate),
              entry |-> LogEntry("Template", value, unwrappedTemplate, TRUE, <<>>, <<>>)]
        ELSE LET split_arr == split(unwrappedTemplate, " ")
                 outs == [k \in 1..Len(split_arr) |-> stripQuotes(split_arr[k])]
             IN  [tokens |-> toks \o outs, html_tokens |-> html,
                  entry |-> LogEntry("Template", value, unwrappedTemplate, FALSE, split_arr, outs)]

\* The entry pushed for a token that is neither String nor Template.
OtherBranch(d, token) ==
    LET value == token.value
        returned == IF d = "none" THEN token ELSE applyDelegate(d, token)
    IN  value

\* One pass through the body of the loop for the scanner outcome o.
tokenizeC_body(o, d, toks, html, lg) ==
    CASE o.kind = "eof"   -> [status |-> "break", tokens |-> toks,
                              html_tokens |-> html, log |-> lg]
      [] o.kind = "throw" -> [status |-> "throw", tokens |-> toks,
                              html_tokens |-> html, log |-> lg]
      [] o.kind = "empty" -> [status |-> "continue", tokens |-> toks,
                              html_tokens |-> html, log |-> lg]
      [] OTHER ->
           IF o.token.type = "String"
           THEN LET b == StringBranch(o.token.value, toks, html)
                IN  [status |-> "continue", tokens |-> b.tokens,
                     html_tokens |-> b.html_tokens, log |-> Append(lg, b.entry)]
           ELSE IF o.token.type = "Template"
           THEN LET b == TemplateBranch(o.token.value, toks, html)
                IN  [status |-> "continue", tokens |-> b.tokens,
                     html_tokens |-> b.html_tokens, log |-> Append(lg, b.entry)]
           ELSE IF d = "throws"
           THEN [status |-> "delegate-throw", tokens |-> toks,
                 html_tokens |-> html, log |-> lg]
           ELSE [status |-> "continue",
                 tokens |-> Append(toks, OtherBranch(d, o.token)),
                 html_tokens |-> html, log |-> lg]

(***************************************************************************)
(* tokenizeC, halting revision (src/src/esprima.ts)                        *)
(***************************************************************************)
\* The condition that leaves the loop before the token is looked at.
StopsBefore(o) ==
    \/ o.kind = "eof"
    \/ o.token.value = <<>>
    \/ o.token.type \notin {"Identifier", "Template", "String"}

LiteralBranch_ts(type, value, toks) ==
    LET unwrapped == IF type = "String" THEN unwrapString(value)
                                        ELSE unwrapTemplate(value)
        split_arr == split(unwrapped, " ")
        elements  == [k \in 1..Len(split_arr) |-> stripQuotes(split_arr[k])]
        outs      == [k \in 1..Len(split_arr) |-> Tok(type, elements[k])]
    IN  [tokens |-> toks \o outs,
         entry |-> LogEntry(type, value, unwrapped, FALSE, split_arr, elements)]

tokenizeC_ts_body(o, d, toks, lg) ==
    CASE o.kind = "throw" -> [status |-> "throw", tokens |-> toks, log |-> lg]
      [] o.kind # "throw" /\ StopsBefore(o) ->
                             [status |-> "break", tokens |-> toks, log |-> lg]
      [] OTHER ->
           IF o.token.type \in {"String", "Template"}
           THEN LET b == LiteralBranch_ts(o.token.type, o.token.value, toks)
                IN  [status |-> "break", tokens |-> b.tokens,
                     log |-> Append(lg, b.entry)]
           ELSE IF d = "throws"
           THEN [status |-> "delegate-throw", tokens |-> toks, log |-> lg]
           ELSE [status |-> "continue",
                 tokens |-> Append(toks, IF d = "none" THEN o.token
                                         ELSE applyDelegate(d, o.token)),
                 log |-> lg]

(***************************************************************************)
(* tokenize                                                                *)
(***************************************************************************)
tokenize_body(o, d, toks) ==
    CASE o.kind = "eof"   -> [status |-> "break", tokens |-> toks]
      [] o.kind = "throw" -> [status |-> "throw", tokens |-> toks]
      [] OTHER ->
           IF d = "throws"
           THEN [status |-> "delegate-throw", tokens |-> toks]
           ELSE [status |-> "continue",
                 tokens |-> Append(toks, IF d = "none" THEN o.token
                                         ELSE applyDelegate(d, o.token))]

(***************************************************************************)
(* The end of a tokenizer call: catch clause, errors field, return         *)
(***************************************************************************)
NoResult == [kind |-> "none"]

\* A catch clause that throws the error on instead of handing it to the
\* error handler.
CatchClause_rethrows(tol, errs, e) == [raised |-> TRUE, errors |-> errs]

\* catch (e) { tokenizer.errorHandler.tolerate(e); }
CatchClause(tol, errs, e) == tolerate(tol, errs, e)

\* The errors field attached whatever the mode.
ErrorsField_always(tol, errs) == [hasErrors |-> TRUE, errors |-> errs]

\* if (tokenizer.errorHandler.tolerant) { tokens.errors = tokenizer.errors(); }
ErrorsField(tol, errs) ==
    IF tol THEN [hasErrors |-> TRUE, errors |-> errs]
    ELSE [hasErrors |-> FALSE, errors |-> <<>>]

\* The state a pass through the loop body leaves behind: the loop goes on,
\* or the call returns, or the call raises.
Epilogue(status, tol, errs, n) ==
    LET thrown == status \in {"throw", "delegate-throw"}
        e      == IF status = "throw" THEN ScanError(n) ELSE DelegateError(n)
        caught == IF thrown THEN CatchClause(tol, errs, e)
                            ELSE [raised |-> FALSE, errors |-> errs]
    IN  [pc |-> IF status = "continue" THEN "scan"
                ELSE IF caught.raised THEN "raised" ELSE "returned",
         errors |-> caught.errors,
         field |-> ErrorsField(tol, caught.errors)]

(***************************************************************************)
(* parse                                                                   *)
(***************************************************************************)
\* Values an option can hold, by what typeof and truthiness see of them.
OptionValues == {"undefined", "true", "false", "nonboolean"}

NoOptions == [present |-> FALSE, comment |-> "undefined",
              attachComment |-> "undefined", tokens |-> "undefined"]

ParseOptions ==
    {NoOptions} \cup [present : {TRUE}, comment : OptionValues,
                      attachComment : OptionValues, tokens : {"undefined", "true"}]

\* typeof v === 'boolean' && v
BooleanTrue(v) == v = "true"

NoHandler == [present |-> FALSE, attach |-> FALSE]

Metadata == {[start |-> 0, end |-> 1], [start |-> 1, end |-> 3]}

Visit(who, event) == [who |-> who, node |-> event.node, metadata |-> event.metadata]

\* proxyDelegate with its two calls in the other order.
proxyDelegate_comment_first(d, handler, event, vs) ==
    LET afterHandler == IF handler.present
                        THEN Append(vs, Visit("commentHandler", event)) ELSE vs
    IN  IF d # "none" THEN Append(afterHandler, Visit("delegate", event))
        ELSE afterHandler

\* const proxyDelegate = (node, metadata) => { ... }: the visits it adds.
proxyDelegate(d, handler, event, vs) ==
    LET afterDelegate == IF d # "none" THEN Append(vs, Visit("delegate", event))
                                       ELSE vs
    IN  IF handler.present
        THEN Append(afterDelegate, Visit("commentHandler", event))
        ELSE afterDelegate

\* collectComment and attachComment, as parse computes them.
collectCommentFor(opts) == opts.present /\ BooleanTrue(opts.comment)

attachCommentFor(opts) == opts.present /\ BooleanTrue(opts.attachComment)

\* The comment handler parse creates, if any.
commentHandlerFor(opts) ==
    IF collectCommentFor(opts) \/ attachCommentFor(opts)
    THEN [present |-> TRUE, attach |-> attachCommentFor(opts)]
    ELSE NoHandler

\* The delegate handed to the parser: proxyDelegate or null.
parserDelegateFor(d, opts) ==
    IF collectCommentFor(opts) \/ attachCommentFor(opts) THEN "proxyDelegate"
    ELSE IF d = "visitor" THEN "proxyDelegate" ELSE "null"

(***************************************************************************)
(* State machine                                                           *)
(***************************************************************************)
Functions == {"tokenize", "tokenizeC", "tokenizeC_ts", "parse"}

Init ==
    /\ fn \in Functions
    /\ options \in (IF fn = "parse" THEN ParseOptions ELSE {NoOptions})
    /\ tolerant \in (IF fn = "parse" /\ ~options.present THEN {FALSE} ELSE BOOLEAN)
    /\ delegate \in (IF fn = "parse" THEN {"none", "visitor"} ELSE Delegates)
    /\ pc = IF fn = "parse" THEN "call" ELSE "scan"
    /\ scanned = 0
    /\ last = Outcome("none", NoToken)
    /\ tokens = <<>>
    /\ html_tokens = <<>>
    /\ errors = <<>>
    /\ log = <<>>
    /\ result = NoResult
    /\ collectComment = FALSE
    /\ commentHandler = NoHandler
    /\ parserDelegate = "null"
    /\ completed = <<>>
    /\ visits = <<>>

\* tokenize (src/src/esprima.ts): one pass through the loop, and the rest
\* of the call when the pass leaves the loop.  (b ranges over a singleton
\* so that the pass is evaluated once.)
tokenize ==
    /\ fn = "tokenize" /\ pc = "scan"
    /\ \E o \in getNextToken(tolerant, scanned) :
       \E b \in {tokenize_body(o, delegate, tokens)} :
         LET ep == Epilogue(b.status, tolerant,
                            ScannerErrors(o, errors, scanned), scanned)
         IN  /\ last' = o
             /\ scanned' = scanned + 1
             /\ tokens' = b.tokens
             /\ errors' = ep.errors
             /\ pc' = ep.pc
             /\ result' = IF ep.pc = "returned"
                          THEN [kind |-> "tokens", tokens |-> b.tokens,
                                hasErrors |-> ep.field.hasErrors,
                                errors |-> ep.field.errors]
                          ELSE NoResult
    /\ UNCHANGED <<fn, tolerant, delegate, options, html_tokens, log,
                   collectComment, commentHandler, parserDelegate, completed, visits>>

\* tokenizeC, markup-separating revision (src/unnamed/part_000).
tokenizeC ==
    /\ fn = "tokenizeC" /\ pc = "scan"
    /\ \E o \in getNextTokenCustom(tolerant, scanned) :
       \E b \in {tokenizeC_body(o, delegate, tokens, html_tokens, log)} :
         LET ep == Epilogue(b.status, tolerant,
                            ScannerErrors(o, errors, scanned), scanned)
         IN  /\ last' = o
             /\ scanned' = scanned + 1
             /\ tokens' = b.tokens
             /\ html_tokens' = b.html_tokens
             /\ log' = b.log
             /\ errors' = ep.errors
             /\ pc' = ep.pc
             /\ result' = IF ep.pc = "returned"
                          THEN [kind |-> "classified", tokens |-> b.tokens,
                                html_tokens |-> b.html_tokens,
                                hasErrors |-> ep.field.hasErrors,
                                errors |-> ep.field.errors]
                          ELSE NoResult
    /\ UNCHANGED <<fn, tolerant, delegate, options,
                   collectComment, commentHandler, parserDelegate, completed, visits>>

\* tokenizeC, halting revision (src/src/esprima.ts).
tokenizeC_ts ==
    /\ fn = "tokenizeC_ts" /\ pc = "scan"
    /\ \E o \in getNextToken(tolerant, scanned) :
       \E b \in {tokenizeC_ts_body(o, delegate, tokens, log)} :
         LET ep == Epilogue(b.status, tolerant,
                            ScannerErrors(o, errors, scanned), scanned)
         IN  /\ last' = o
             /\ scanned' = scanned + 1
             /\ tokens' = b.tokens
             /\ log' = b.log
             /\ errors' = ep.errors
             /\ pc' = ep.pc
             /\ result' = IF ep.pc = "returned"
                          THEN [kind |-> "tokens", tokens |-> b.tokens,
                                hasErrors |-> ep.field.hasErrors,
                                errors |-> ep.field.errors]
                          ELSE NoResult
    /\ UNCHANGED <<fn, tolerant, delegate, options, html_tokens,
                   collectComment, commentHandler, parserDelegate, completed, visits>>

\* parse, up to the construction of the parser.
parse ==
    /\ fn = "parse" /\ pc = "call"
    /\ collectComment' = collectCommentFor(options)
    /\ commentHandler' = commentHandlerFor(options)
    /\ parserDelegate' = parserDelegateFor(delegate, options)
    /\ options' = IF commentHandlerFor(options).present
                  THEN [options EXCEPT !.comment = "true"] ELSE options
    /\ pc' = "parsing"
    /\ UNCHANGED <<fn, tolerant, delegate, scanned, last, tokens, html_tokens,
                   errors, log, result, completed, visits>>

\* The parser completes a node and reports it to the delegate it was given.
NodeCompleted ==
    /\ fn = "parse" /\ pc = "parsing"
    /\ Len(completed) < MaxNodes
    /\ \E m \in Metadata :
         LET event == [node |-> Len(completed) + 1, metadata |-> m]
         IN  /\ completed' = Append(completed, event)
             /\ visits' = IF parserDelegate = "proxyDelegate"
                          THEN proxyDelegate(delegate, commentHandler, event, visits)
                          ELSE visits
    /\ UNCHANGED <<fn, tolerant, delegate, options, pc, scanned, last, tokens,
                   html_tokens, errors, log, result, collectComment, commentHandler,
                   parserDelegate>>

\* The parser raises and parse lets the error through.
ParserThrows ==
    /\ fn = "parse" /\ pc = "parsing"
    /\ pc' = "raised"
    /\ UNCHANGED <<fn, tolerant, delegate, options, scanned, last, tokens,
                   html_tokens, errors, log, result, collectComment,
                   commentHandler, parserDelegate, completed, visits>>

\* parse, from the program the parser returned to the end.
parse_return ==
    /\ fn = "parse" /\ pc = "parsing"
    /\ pc' = "returned"
    /\ result' = [kind |-> "ast",
                  comments |-> collectComment /\ commentHandler.present,
                  tokens |-> BooleanTrue(options.tokens),
                  errors |-> tolerant]
    /\ UNCHANGED <<fn, tolerant, delegate, options, scanned, last, tokens,
                   html_tokens, errors, log, collectComment, commentHandler,
                   parserDelegate, completed, visits>>

Next ==
    \/ tokenize
    \/ tokenizeC
    \/ tokenizeC_ts
    \/ parse
    \/ NodeCompleted
    \/ ParserThrows
    \/ parse_return

Spec == Init /\ [][Next]_vars

\* The calls of one entry point, its actions alone.
InitTokenize == Init /\ fn = "tokenize"
SpecTokenize == InitTokenize /\ [][tokenize]_vars

InitTokenizeC == Init /\ fn = "tokenizeC"
SpecTokenizeC == InitTokenizeC /\ [][tokenizeC]_vars

InitTokenizeC_ts == Init /\ fn = "tokenizeC_ts"
SpecTokenizeC_ts == InitTokenizeC_ts /\ [][tokenizeC_ts]_vars

InitClassifier == Init /\ fn \in {"tokenizeC", "tokenizeC_ts"}
NextClassifier ==
    \/ tokenizeC
    \/ tokenizeC_ts
SpecClassifier == InitClassifier /\ [][NextClassifier]_vars

InitParse == Init /\ fn = "parse"
NextParse ==
    \/ parse
    \/ NodeCompleted
    \/ ParserThrows
    \/ parse_return
SpecParse == InitParse /\ [][NextParse]_vars

(***************************************************************************)
(* Properties                                                              *)
(***************************************************************************)
Literal(o) == o.token.type \in {"String", "Template"}

Delivered(o) == o.kind \in {"token", "tolerated"}

\* The text of a literal token without its delimiters.
Unwrapped(token) ==
    IF token.type = "String" THEN unwrapString(token.value)
    ELSE unwrapTemplate(token.value)

\* Does the element name tag stand in text at position p, in any case?
NameAt(text, p, tag) ==
    /\ p + Len(tag) - 1 <= Len(text)
    /\ \A k \in 1..Len(tag) : Canonicalize(text[p + k - 1]) = tag[k]

\* A tag-shaped substring: "<", an optional "/", a whitelisted element name
\* in any case, any characters, ">".
TagShaped(text) ==
    \E i \in 1..Len(text) :
      /\ text[i] = "<"
      /\ \E p \in {i + 1} \cup (IF i < Len(text) /\ text[i + 1] = "/"
                                THEN {i + 2} ELSE {}) :
           \E t \in 1..Len(html_tags) :
             /\ NameAt(text, p, html_tags[t])
             /\ \E g \in (p + Len(html_tags[t]))..Len(text) : text[g] = ">"

\* C1: isHTML(text) is true exactly when text contains a tag-shaped
\* substring; stated of every literal text the markup-separating tokenizeC
\* has classified.
C1_isHTML_iff_tag_shaped ==
    fn = "tokenizeC" =>
        \A k \in 1..Len(log) : log[k].html <=> TagShaped(log[k].text)

\* C2: a string literal whose body holds no tag-shaped markup adds one plain
\* token per space-separated piece of its body, after the plain tokens
\* already there, and adds nothing to the markup fragments.
C2_plain_string_yields_its_words ==
    [][(fn = "tokenizeC" /\ Delivered(last') /\ last'.token.type = "String"
          /\ ~TagShaped(Unwrapped(last'.token)))
       => /\ html_tokens' = html_tokens
          /\ Len(tokens') = Len(tokens) + Len(split(Unwrapped(last'.token), " "))
          /\ SubSeq(tokens', 1, Len(tokens)) = tokens]_vars

\* C3: every string or template literal goes to exactly one output.  If
\* isHTML classifies its unwrapped text as markup, the text is appended
\* unsplit as one entry at the end of the markup fragments and the plain
\* tokens do not change; otherwise the markup fragments do not change and
\* the plain tokens grow at their end.
C3_literal_goes_to_exactly_one_output ==
    [][(fn = "tokenizeC" /\ Delivered(last') /\ Literal(last'))
       => IF isHTML(Unwrapped(last'.token))
          THEN /\ html_tokens' = Append(html_tokens, Unwrapped(last'.token))
               /\ tokens' = tokens
          ELSE /\ html_tokens' = html_tokens
               /\ Len(tokens') > Len(tokens)
               /\ SubSeq(tokens', 1, Len(tokens)) = tokens]_vars

\* A call that routed one literal to the markup fragments and split another.
C3_witness ==
    /\ fn = "tokenizeC"
    /\ Len(log) = 2
    /\ log[1].html /\ ~log[2].html
    /\ html_tokens = <<log[1].text>>
    /\ tokens = log[2].outs

\* The tokens the transform is applied to: every token in tokenize, the
\* tokens that are no literals in tokenizeC, and of these only the ones
\* that do not end the scan in the halting revision.
DelegateCalled ==
    /\ Delivered(last)
    /\ fn = "tokenizeC" => ~Literal(last)
    /\ fn = "tokenizeC_ts" => ~Literal(last) /\ ~StopsBefore(last)

\* An error was thrown inside the loop on the last pass, by the scanner or
\* by the transform.
Thrown ==
    \/ last.kind = "throw"
    \/ delegate = "throws" /\ DelegateCalled

Classifiers == {"tokenizeC", "tokenizeC_ts"}

\* C4 as stated: tokenizeC never raises to its caller, in either error mode.
C4_never_raises == fn \in Classifiers => pc # "raised"

\* C4 amended: tokenizeC never raises in tolerant mode, and never while it
\* unwraps and splits a literal; it raises exactly when an error is thrown
\* inside its loop in strict mode, and otherwise returns a result.
C4_raises_only_on_error_in_strict_mode ==
    fn \in Classifiers =>
        /\ pc = "raised" <=> (~tolerant /\ Thrown)
        /\ pc = "returned" => result # NoResult /\ result.tokens = tokens
        /\ pc = "raised" => result = NoResult

\* A tolerant call that was given a string token shorter than its two
\* delimiters and a template piece without backticks, then a scanner error,
\* and returned.
C4_witness ==
    /\ fn = "tokenizeC" /\ tolerant /\ pc = "returned"
    /\ Len(log) = 2
    /\ log[1].type = "String" /\ Len(log[1].value) < 2
    /\ log[2].type = "Template" /\ log[2].value = <<"}","x","y","$","{">>
    /\ last.kind = "throw"
    /\ result.errors = <<ScanError(2)>>

IsDelegateVisit(v) == v.who = "delegate"

IsHandlerVisit(v) == v.who = "commentHandler"

Events(vs) == [i \in 1..Len(vs) |-> [node |-> vs[i].node, metadata |-> vs[i].metadata]]

CommentsEnabled ==
    options.present /\ (options.comment = "true" \/ options.attachComment = "true")

\* C5: every completed node is delivered with its metadata to the caller's
\* visitor, if one was supplied, and to the comment visitor, if comment
\* collection or attachment is enabled, supplied visitor or not; the visit
\* of the comment visitor comes right after the caller's visit of the same
\* node, never before it.
C5_visitor_then_comment_handler ==
    (fn = "parse" /\ pc # "call") =>
        /\ Events(SelectSeq(visits, IsDelegateVisit))
              = IF delegate = "visitor" THEN completed ELSE <<>>
        /\ Events(SelectSeq(visits, IsHandlerVisit))
              = IF CommentsEnabled THEN completed ELSE <<>>
        /\ \A i \in 1..Len(visits) :
              (visits[i].who = "commentHandler" /\ delegate = "visitor")
              => /\ i > 1
                 /\ visits[i - 1] = [visits[i] EXCEPT !.who = "delegate"]

\* Two nodes completed with a supplied visitor and comment attachment on.
C5_witness ==
    /\ fn = "parse" /\ delegate = "visitor"
    /\ options.present /\ options.attachComment = "true"
    /\ Len(completed) = 2
    /\ Len(visits) = 4

\* C6: in strict mode an error thrown while scanning makes tokenize raise
\* with no token list returned; in tolerant mode the error is appended to
\* the error list and the call returns the tokens with the errors.  The
\* result has an errors field exactly when the mode is tolerant.
C6_tokenize_error_modes ==
    fn = "tokenize" =>
        /\ (~tolerant /\ Thrown) => pc = "raised" /\ result = NoResult
        /\ pc = "raised" => ~tolerant /\ Thrown
        /\ (tolerant /\ Thrown)
              => /\ pc = "returned"
                 /\ errors # <<>>
                 /\ errors[Len(errors)].index = scanned - 1
        /\ pc = "returned"
              => /\ result.tokens = tokens
                 /\ result.hasErrors <=> tolerant
                 /\ tolerant => result.errors = errors

\* A tolerant call that returned a token and two errors.
C6_witness ==
    /\ fn = "tokenize" /\ tolerant /\ pc = "returned"
    /\ Len(result.tokens) = 1
    /\ Len(result.errors) = 2

\* The value of an entry of the plain-token output: the entry itself in the
\* markup-separating revision, the value of the token pushed in the other.
EntryValue(entry) == IF fn = "tokenizeC" THEN entry ELSE entry.value

\* C7: with a transform supplied, the entry pushed for a token that is no
\* literal is what the transform returned for it.
C7_transform_result_is_pushed ==
    (fn \in Classifiers /\ delegate = "rename" /\ pc = "scan"
       /\ Delivered(last) /\ ~Literal(last))
    => /\ tokens # <<>>
       /\ EntryValue(tokens[Len(tokens)]) = applyDelegate(delegate, last.token).value

Quotes == {"'", "\""}

\* What a piece can become when at most one leading and at most one
\* trailing quote character are taken away from it.
QuoteStrippings(piece) ==
    LET n     == Len(piece)
        lead  == IF n >= 1 /\ piece[1] \in Quotes THEN {0, 1} ELSE {0}
        trail == IF n >= 1 /\ piece[n] \in Quotes THEN {0, 1} ELSE {0}
    IN  {SubSeq(piece, 1 + a, n - b) : a \in lead, b \in trail}

\* What is left of a quote-stripped piece once the markup-separating
\* revision has treated a leading selector character.
AfterSelector(type, m) ==
    IF fn = "tokenizeC" /\ type = "String" THEN {m, stripSelector(m)} ELSE {m}

\* C8: the word token made from a piece is the piece less at most one
\* leading and at most one trailing quote character; no other character
\* of the piece is lost to the quote stripping.
C8_only_quotes_are_stripped ==
    fn \in Classifiers =>
        \A k \in 1..Len(log) : \A j \in 1..Len(log[k].pieces) :
            \E m \in QuoteStrippings(log[k].pieces[j]) :
                log[k].outs[j] \in AfterSelector(log[k].type, m)

\* C9: the halting revision stops scanning only at the end of the input, at
\* a token with an empty value or at a token that is no Identifier, Template
\* or String (an error thrown inside the loop aside).
C9_stops_only_at_end_or_foreign_token ==
    (fn = "tokenizeC_ts" /\ pc = "returned") =>
        \/ last.kind = "eof"
        \/ Thrown
        \/ Delivered(last)
             /\ (\/ last.token.value = <<>>
                 \/ last.token.type \notin {"Identifier", "Template", "String"})

\* A piece less one leading selector character, if it has one.
WithoutSelector(m) ==
    IF Len(m) >= 1 /\ m[1] \in {".", "#"} THEN SubSeq(m, 2, Len(m)) ELSE m

\* C10: in the markup-separating revision every word made from a literal
\* that is no markup, string or template, has one leading "." or "#"
\* removed when there is one.
C10_selector_prefix_stripped ==
    fn = "tokenizeC" =>
        \A k \in 1..Len(log) : \A j \in 1..Len(log[k].pieces) :
            log[k].outs[j] = WithoutSelector(stripQuotes(log[k].pieces[j]))
====
